---- MODULE Spec2Model ----
(***************************************************************************)
(* A model of the Eventizer event bus (src/src/Eventizer.ts).              *)
(*                                                                         *)
(* The bus keeps `subscribers`, an object mapping an event name to a       *)
(* JavaScript array of callbacks.  Arrays are heap objects: `on` pushes    *)
(* in place onto the array the key refers to, `off` replaces the key's     *)
(* array by a new filtered one, `clearEvent` / `clearAll` drop the         *)
(* reference.  `emit` runs Array.prototype.forEach over the array the key  *)
(* referred to when emit was called; forEach fixes its length on entry.    *)
(* Listeners are user code: while a listener runs it may call any          *)
(* operation of the bus, so the model keeps the stack of emit calls in     *)
(* progress, and every operation may be called by the top-level caller     *)
(* (empty stack) or by the listener that is running (top of the stack).    *)
(***************************************************************************)
EXTENDS Integers, Sequences, FiniteSets, TLC

\* ---------------------------------------------------------------- bounds
\* The on() calls made in a behaviour plus the depth of the emit() calls in progress
\* (counting room for one emit call when none is in progress): three registrations
\* under one emit call, two under an emit call nested in another, and so on.
MaxLoad == 4

EventSeq == <<"e1", "e2">>
Events == {EventSeq[i] : i \in DOMAIN EventSeq}
Listeners == {"l1", "l2"}
Payloads == {"p1", "p2"}
Errors == {"boom"}

\* React bindings: the components that call useSubscribe, the values a component
\* passes as its explicit dependency, and the Eventizer instances that are given to
\* providers: ThisBus is the instance the variables above are the state of.
Consumers == {"c1", "c2"}
Deps == {"d1", "d2"}
ThisBus == "busA"
PeerBus == "busB"
Buses == {"busA", "busB"}

\* the EventizerProviders nested around the consumers, at most
MaxNesting == 2

\* the default value of EventizerContext: createContext(null), line 15
Null == "null"

\* the value of subscribers[event] for a key that is not in the object
Undefined == 0

VARIABLES
  subscribers,  \* Eventizer.subscribers: event -> address of its array, or Undefined
  heap,         \* address -> contents of the array, a sequence of entries [cb, t]
  stack,        \* the emit calls in progress, outermost first
  unsubs,       \* the functions returned by on() so far: closures over [ev, cb]
  thrown,       \* the exception the last call raised to the top-level caller, or "none"
  nextStamp,    \* history: number of the next on() call
  regs,         \* history: the registrations made and not yet removed
  spent,        \* history: closures of which a call has removed a registration
  hooks,        \* React: consumer -> the state of its useSubscribe effect
  providers,    \* React: the bus props of the EventizerProviders around the consumers
  got,          \* React: what the last useEventizer() call gave its caller
  emitters,     \* React: consumer -> what its last useEmitter() call was given and gave
  peer,         \* the Eventizer instance PeerBus: its subscribers object and arrays
  pass          \* the emit call of BusEmit that has just returned, if any

\* the variables of the React bindings (src/src/EventizerContext.tsx)
hookVars == <<hooks, providers, got>>

\* what is outside the bus and the components that call useSubscribe
sideVars == <<emitters, peer, pass>>

vars == <<subscribers, heap, stack, unsubs, thrown, nextStamp, regs, spent,
          hooks, providers, got, emitters, peer, pass>>

\* ------------------------------------------------------------- helpers
\* the array an event's key refers to, read as a sequence ([] for a missing key)
Arr(subs, hp, e) == IF subs[e] = Undefined THEN <<>> ELSE hp[subs[e]]

\* the whole mapping read as event -> sequence of entries
View(subs, hp) == [e \in Events |-> Arr(subs, hp, e)]

\* the keys present in the object
Keys(subs) == {e \in Events : subs[e] # Undefined}

\* a fresh address
Alloc(hp) ==
  CHOOSE i \in 1..(Cardinality(DOMAIN hp) + 1) :
    i \notin DOMAIN hp /\ \A j \in 1..(i - 1) : j \in DOMAIN hp

\* the references to arrays: the object's keys first, then the emit calls in progress
Refs(subs, stk) ==
  [i \in 1..Len(EventSeq) |-> subs[EventSeq[i]]] \o [i \in 1..Len(stk) |-> stk[i].arr]

\* the addresses of a sequence of references that are not in seen, in the order of
\* their first occurrence
RECURSIVE Uniq(_, _)
Uniq(s, seen) ==
  IF s = <<>> THEN <<>>
  ELSE IF Head(s) \in seen THEN Uniq(Tail(s), seen)
  ELSE <<Head(s)>> \o Uniq(Tail(s), seen \cup {Head(s)})

\* Garbage collection (a moving collector): the arrays at the addresses of order
\* are kept and renumbered by their place in it, the others are dropped.  Addresses
\* are not observable.
Collect(subs, hp, stk, order) ==
  LET to(a) == IF a = Undefined THEN Undefined
               ELSE CHOOSE n \in DOMAIN order : order[n] = a
  IN  IF order = [n \in DOMAIN order |-> n] /\ DOMAIN hp = DOMAIN order
      THEN [subs |-> subs, heap |-> hp, stack |-> stk]
      ELSE [subs  |-> [e \in Events |-> to(subs[e])],
            heap  |-> [n \in DOMAIN order |-> hp[order[n]]],
            stack |-> [i \in 1..Len(stk) |-> [stk[i] EXCEPT !.arr = to(@)]]]

\* number of entries of s that are the callback l
RECURSIVE CountCb(_, _)
CountCb(s, l) ==
  IF s = <<>> THEN 0 ELSE (IF Head(s).cb = l THEN 1 ELSE 0) + CountCb(Tail(s), l)

\* ----------------------------------------------------------------- on
\* unshift in place of push
PushFront(a, x) == <<x>> \o a

\* Array.prototype.push
Push(a, x) == Append(a, x)

\* on() that skips a callback the event already has
OnOpDedup(subs, hp, e, entry) ==
  LET fresh == subs[e] = Undefined
      id    == IF fresh THEN Alloc(hp) ELSE subs[e]
      hp1   == IF fresh THEN hp @@ (id :> <<>>) ELSE hp
  IN  IF ~fresh /\ CountCb(hp[subs[e]], entry.cb) > 0
      THEN [subs |-> subs, heap |-> hp]
      ELSE [subs |-> [subs EXCEPT ![e] = id],
            heap |-> [hp1 EXCEPT ![id] = Append(@, entry)]]

\* on(event, callback), lines 27-30: create the array if the key is missing, push
OnOp(subs, hp, e, entry) ==
  LET fresh == subs[e] = Undefined
      id    == IF fresh THEN Alloc(hp) ELSE subs[e]
      hp1   == IF fresh THEN hp @@ (id :> <<>>) ELSE hp
  IN  [subs |-> [subs EXCEPT ![e] = id],
       heap |-> [hp1 EXCEPT ![id] = Push(@, entry)]]

\* ---------------------------------------------------------------- off
\* removal of the first matching entry only (indexOf and splice)
RECURSIVE FilterFirst(_, _)
FilterFirst(a, l) ==
  IF a = <<>> THEN <<>>
  ELSE IF Head(a).cb = l THEN Tail(a)
  ELSE <<Head(a)>> \o FilterFirst(Tail(a), l)

\* the test inverted: filter(cb => cb === callback)
RECURSIVE FilterInverted(_, _)
FilterInverted(a, l) ==
  IF a = <<>> THEN <<>>
  ELSE IF Head(a).cb = l THEN <<Head(a)>> \o FilterInverted(Tail(a), l)
  ELSE FilterInverted(Tail(a), l)

\* Array.prototype.filter(cb => cb !== callback): a new array
RECURSIVE Filter(_, _)
Filter(a, l) ==
  IF a = <<>> THEN <<>>
  ELSE IF Head(a).cb # l THEN <<Head(a)>> \o Filter(Tail(a), l)
  ELSE Filter(Tail(a), l)

\* off() without lines 48-50: a key whose array became empty is kept
OffOpKeepEmpty(subs, hp, e, l) ==
  IF subs[e] = Undefined THEN [subs |-> subs, heap |-> hp]
  ELSE LET id == Alloc(hp)
       IN  [subs |-> [subs EXCEPT ![e] = id],
            heap |-> hp @@ (id :> Filter(hp[subs[e]], l))]

\* off() by indexOf and splice, without a test of the index: splice(-1, 1) takes
\* the last entry away when the callback is not in the array
OffOpSplice(subs, hp, e, l) ==
  IF subs[e] = Undefined THEN [subs |-> subs, heap |-> hp]
  ELSE LET a    == hp[subs[e]]
           hit  == {i \in DOMAIN a : a[i].cb = l}
           at   == IF hit = {} THEN Len(a) ELSE CHOOSE i \in hit : \A j \in hit : i <= j
           kept == SubSeq(a, 1, at - 1) \o SubSeq(a, at + 1, Len(a))
       IN  IF Len(kept) = 0
           THEN [subs |-> [subs EXCEPT ![e] = Undefined], heap |-> hp]
           ELSE [subs |-> subs, heap |-> [hp EXCEPT ![subs[e]] = kept]]

\* off() that takes the entries out of the array itself (splice in a loop), the
\* array that a forEach in progress runs over
OffOpInPlace(subs, hp, e, l) ==
  IF subs[e] = Undefined THEN [subs |-> subs, heap |-> hp]
  ELSE LET kept == Filter(hp[subs[e]], l)
       IN  [subs |-> IF Len(kept) = 0 THEN [subs EXCEPT ![e] = Undefined] ELSE subs,
            heap |-> [hp EXCEPT ![subs[e]] = kept]]

\* off(event, callback), lines 43-50
OffOp(subs, hp, e, l) ==
  IF subs[e] = Undefined THEN [subs |-> subs, heap |-> hp]
  ELSE LET id   == Alloc(hp)
           kept == Filter(hp[subs[e]], l)
       IN  IF Len(kept) = 0
           THEN [subs |-> [subs EXCEPT ![e] = Undefined], heap |-> hp]
           ELSE [subs |-> [subs EXCEPT ![e] = id], heap |-> hp @@ (id :> kept)]

\* ------------------------------------------------------ subscriberCount
\* the number of keys in place of the length of the event's array
SubscriberCountKeys(subs, hp, e) == Cardinality(Keys(subs))

\* this.subscribers[event]?.length || 0
SubscriberCountOp(subs, hp, e) ==
  IF subs[e] = Undefined THEN 0
  ELSE IF Len(hp[subs[e]]) = 0 THEN 0 ELSE Len(hp[subs[e]])

\* --------------------------------------------------------------- clear
\* clearEvent() that drops every key
ClearEventOpAll(subs, e) == [d \in Events |-> Undefined]

\* delete this.subscribers[event]
ClearEventOp(subs, e) == [subs EXCEPT ![e] = Undefined]

\* clearAll() that drops the first key only
ClearAllOpFirst(subs) == [subs EXCEPT ![EventSeq[1]] = Undefined]

\* this.subscribers = {}
ClearAllOp(subs) == [e \in Events |-> Undefined]

\* ---------------------------------------------------------------- emit
\* An emit call in progress: the array forEach runs over (arr), the length forEach
\* fixed on entry (len), the index of the call being made (k), and whether a
\* listener is running ("body") or forEach is over and emit is returning ("done").
\* seen and errs record the calls made and the reports written to console.error;
\* snap and regsAt record the array and the event's registrations when emit was called.

\* callback() without the payload
CallNoPayload(f, entry) == [cb |-> entry.cb, t |-> entry.t, arg |-> "none"]

\* one call of the forEach callback: callback(payload)
Call(f, entry) == [cb |-> entry.cb, t |-> entry.t, arg |-> f.arg]

\* a loop that reads the length of the array at every step (for ... i < a.length)
AdvanceLive(stk, hp) ==
  LET n == Len(stk)
      f == stk[n]
  IN  IF f.arr # Undefined /\ f.k + 1 <= Len(hp[f.arr])
      THEN LET entry == hp[f.arr][f.k + 1]
           IN  [stk EXCEPT ![n] = [f EXCEPT !.k = f.k + 1,
                                            !.seen = Append(@, Call(f, entry)),
                                            !.phase = "body"]]
      ELSE [stk EXCEPT ![n] = [f EXCEPT !.phase = "done"]]

\* forEach after the call at index f.k: the next index below the length fixed on
\* entry that the array still has, else the loop is over
Advance(stk, hp) ==
  LET n == Len(stk)
      f == stk[n]
  IN  IF f.arr # Undefined /\ f.k < f.len /\ f.k + 1 <= Len(hp[f.arr])
      THEN LET entry == hp[f.arr][f.k + 1]
           IN  [stk EXCEPT ![n] = [f EXCEPT !.k = f.k + 1,
                                            !.seen = Append(@, Call(f, entry)),
                                            !.phase = "body"]]
      ELSE [stk EXCEPT ![n] = [f EXCEPT !.phase = "done"]]

\* try/catch around the whole forEach: the report is written and the loop is over
CatchStop(stk, hp, err) ==
  LET n == Len(stk)
      f == stk[n]
      g == [f EXCEPT !.errs = Append(@, [ev |-> f.ev, err |-> err, k |-> f.k]),
                     !.phase = "done"]
  IN  [stack |-> [stk EXCEPT ![n] = g], thrown |-> "none"]

\* no try/catch: the exception unwinds every emit call in progress
CatchRethrow(stk, hp, err) == [stack |-> <<>>, thrown |-> err]

\* a catch block that swallows the exception without a report
CatchSilent(stk, hp, err) == [stack |-> Advance(stk, hp), thrown |-> "none"]

\* the catch block of emit, lines 63-65: report on console.error, and forEach goes on
Catch(stk, hp, err) ==
  LET n == Len(stk)
      f == stk[n]
      g == [f EXCEPT !.errs = Append(@, [ev |-> f.ev, err |-> err, k |-> f.k])]
  IN  [stack |-> Advance([stk EXCEPT ![n] = g], hp), thrown |-> "none"]

\* emit() that runs forEach over the array of some key, whatever the event
EmitOpAnyKey(stk, subs, hp, e, p, rg) ==
  LET d == IF Keys(subs) = {} THEN e ELSE CHOOSE x \in Keys(subs) : TRUE
      a == Arr(subs, hp, d)
      f == [ev |-> e, arg |-> p, arr |-> subs[d], k |-> 0, len |-> Len(a),
            phase |-> "done", seen |-> <<>>, errs |-> <<>>, snap |-> a,
            regsAt |-> {x \in rg : x.ev = e}]
  IN  Advance(Append(stk, f), hp)

\* emit() that returns before it has called a listener (the calls are put off)
EmitOpDeferred(stk, subs, hp, e, p, rg) ==
  Append(stk, [ev |-> e, arg |-> p, arr |-> subs[e], k |-> 0,
               len |-> Len(Arr(subs, hp, e)), phase |-> "done", seen |-> <<>>,
               errs |-> <<>>, snap |-> Arr(subs, hp, e),
               regsAt |-> {x \in rg : x.ev = e}])

\* emit(event, payload), line 60: subscribers[event]?.forEach(...)
EmitOp(stk, subs, hp, e, p, rg) ==
  LET a == Arr(subs, hp, e)
      f == [ev |-> e, arg |-> p, arr |-> subs[e], k |-> 0, len |-> Len(a),
            phase |-> "done", seen |-> <<>>, errs |-> <<>>, snap |-> a,
            regsAt |-> {x \in rg : x.ev = e}]
  IN  Advance(Append(stk, f), hp)

\* ---------------------------------------------------------------- Init
\* a component that is not mounted: no effect, no cleanup function
NoHook == [active |-> FALSE, ev |-> "none", cb |-> "none", dep |-> "none",
           t |-> 0, mine |-> {}, cleaned |-> 0]

\* no useEventizer() call was made yet
NotCalled == [called |-> FALSE, throws |-> FALSE, value |-> Null]

\* a component that has not called useEmitter()
NoEmitter == [called |-> FALSE, ev |-> "none", fn |-> [id |-> 0, bus |-> Null, ev |-> "none"]]

\* new Eventizer(), line 17: an object without keys (and no array yet); the other
\* fields are the history of the instance, as for ThisBus
NewBus ==
  [subs |-> [e \in Events |-> Undefined], heap |-> <<>>, unsubs |-> {}, regs |-> {},
   spent |-> {}]

\* a new Eventizer, and a React tree with the providers prov and no consumer mounted
InitWith(prov) ==
  /\ subscribers = [e \in Events |-> Undefined]
  /\ heap = <<>>
  /\ stack = <<>>
  /\ unsubs = {}
  /\ thrown = "none"
  /\ nextStamp = 1
  /\ regs = {}
  /\ spent = {}
  /\ hooks = [c \in Consumers |-> NoHook]
  /\ providers = prov
  /\ got = NotCalled
  /\ emitters = [c \in Consumers |-> NoEmitter]
  /\ peer = NewBus
  /\ pass = <<>>

\* the bus alone: nothing is rendered
Init == InitWith(<<>>)

\* ------------------------------------------------------------- actions
\* the bounded quantity: ons on() calls made, depth emit calls in progress
Load(ons, depth) == ons + (IF depth = 0 THEN 1 ELSE depth)

\* A bus operation is called by the top-level caller, or by the listener that runs.
CanCall == IF stack = <<>> THEN TRUE ELSE stack[Len(stack)].phase = "body"

\* the state after an operation that left the object and the heap as (subs, hp)
Store(subs, hp, stk) ==
  \E refs \in {Refs(subs, stk)} :
    \E order \in {Uniq(refs, {Undefined})} :
      \E c \in {Collect(subs, hp, stk, order)} :
        /\ subscribers' = c.subs
        /\ heap' = c.heap
        /\ stack' = c.stack

\* bus.on(e, l)
On(e, l) ==
  /\ CanCall
  /\ Load(nextStamp, Len(stack)) <= MaxLoad
  /\ UNCHANGED <<hookVars, sideVars>>
  /\ unsubs' = unsubs \cup {[ev |-> e, cb |-> l]}
  /\ regs' = regs \cup {[ev |-> e, cb |-> l, t |-> nextStamp]}
  /\ nextStamp' = nextStamp + 1
  /\ thrown' = "none"
  /\ UNCHANGED spent
  /\ \E r \in {OnOp(subscribers, heap, e, [cb |-> l, t |-> nextStamp])} :
       Store(r.subs, r.heap, stack)

\* bus.off(e, l)
Off(e, l) ==
  /\ CanCall
  /\ UNCHANGED <<hookVars, sideVars>>
  /\ regs' = {x \in regs : ~(x.ev = e /\ x.cb = l)}
  /\ thrown' = "none"
  /\ UNCHANGED <<unsubs, nextStamp, spent>>
  /\ \E r \in {OffOp(subscribers, heap, e, l)} :
       Store(r.subs, r.heap, stack)

\* calling a function returned by on(): () => this.off(event, callback), line 33
Unsubscribe(e, l) ==
  /\ CanCall
  /\ [ev |-> e, cb |-> l] \in unsubs
  /\ UNCHANGED <<hookVars, sideVars>>
  /\ regs' = {x \in regs : ~(x.ev = e /\ x.cb = l)}
  /\ thrown' = "none"
  /\ UNCHANGED <<unsubs, nextStamp>>
  /\ \E r \in {OffOp(subscribers, heap, e, l)} :
       /\ Store(r.subs, r.heap, stack)
       /\ spent' = IF View(r.subs, r.heap) # View(subscribers, heap)
                   THEN spent \cup {[ev |-> e, cb |-> l]} ELSE spent

\* bus.subscriberCount(e): a read, the value returned is SubscriberCountOp
SubscriberCount(e) ==
  /\ CanCall
  /\ SubscriberCountOp(subscribers, heap, e) \in Nat
  /\ UNCHANGED <<hookVars, sideVars>>
  /\ thrown' = "none"
  /\ UNCHANGED <<subscribers, heap, stack, unsubs, nextStamp, regs, spent>>

\* bus.clearEvent(e)
ClearEvent(e) ==
  /\ CanCall
  /\ UNCHANGED <<hookVars, sideVars>>
  /\ regs' = {x \in regs : x.ev # e}
  /\ thrown' = "none"
  /\ UNCHANGED <<unsubs, nextStamp, spent>>
  /\ \E subs \in {ClearEventOp(subscribers, e)} : Store(subs, heap, stack)

\* bus.clearAll()
ClearAll ==
  /\ CanCall
  /\ UNCHANGED <<hookVars, sideVars>>
  /\ regs' = {}
  /\ thrown' = "none"
  /\ UNCHANGED <<unsubs, nextStamp, spent>>
  /\ \E subs \in {ClearAllOp(subscribers)} : Store(subs, heap, stack)

\* bus.emit(e, p) is called: forEach runs up to its first call of a listener
Emit(e, p) ==
  /\ CanCall
  /\ Load(nextStamp - 1, Len(stack) + 1) <= MaxLoad
  /\ UNCHANGED <<hookVars, sideVars>>
  /\ thrown' = "none"
  /\ UNCHANGED <<unsubs, nextStamp, regs, spent>>
  /\ \E stk \in {EmitOp(stack, subscribers, heap, e, p, regs)} :
       Store(subscribers, heap, stk)

\* the running listener returns: forEach calls the next one, or is over
ListenerReturn ==
  /\ stack # <<>>
  /\ stack[Len(stack)].phase = "body"
  /\ UNCHANGED <<hookVars, sideVars>>
  /\ \E stk \in {Advance(stack, heap)} : Store(subscribers, heap, stk)
  /\ UNCHANGED <<unsubs, thrown, nextStamp, regs, spent>>

\* a catch block that also removes the listener that threw
ListenerThrowRemoves(err) ==
  /\ stack # <<>>
  /\ stack[Len(stack)].phase = "body"
  /\ UNCHANGED <<hookVars, sideVars>>
  /\ UNCHANGED <<unsubs, nextStamp, spent>>
  /\ \E f \in {stack[Len(stack)]} :
       /\ regs' = {x \in regs : ~(x.ev = f.ev /\ x.cb = f.seen[f.k].cb)}
       /\ \E o \in {OffOp(subscribers, heap, f.ev, f.seen[f.k].cb)} :
            \E r \in {Catch(stack, o.heap, err)} :
              /\ Store(o.subs, o.heap, r.stack)
              /\ thrown' = r.thrown

\* the running listener throws: emit's try/catch takes the exception
ListenerThrow(err) ==
  /\ stack # <<>>
  /\ stack[Len(stack)].phase = "body"
  /\ UNCHANGED <<hookVars, sideVars>>
  /\ \E r \in {Catch(stack, heap, err)} :
       /\ Store(subscribers, heap, r.stack)
       /\ thrown' = r.thrown
  /\ UNCHANGED <<unsubs, nextStamp, regs, spent>>

\* emit() that delivers again when a listener threw: a pass that is over with a
\* report is followed by another emit of the same event and payload
EmitReturnRetry ==
  /\ stack # <<>>
  /\ stack[Len(stack)].phase = "done"
  /\ UNCHANGED <<hookVars, sideVars>>
  /\ UNCHANGED <<unsubs, thrown, nextStamp, regs, spent>>
  /\ \E f \in {stack[Len(stack)]} : \E below \in {SubSeq(stack, 1, Len(stack) - 1)} :
       IF f.errs = <<>> THEN Store(subscribers, heap, below)
       ELSE Store(subscribers, heap,
                  EmitOp(below, subscribers, heap, f.ev, f.arg, regs))

\* emit returns to its caller (line 67)
EmitReturn ==
  /\ stack # <<>>
  /\ stack[Len(stack)].phase = "done"
  /\ UNCHANGED <<hookVars, sideVars>>
  /\ Store(subscribers, heap, SubSeq(stack, 1, Len(stack) - 1))
  /\ UNCHANGED <<unsubs, thrown, nextStamp, regs, spent>>

Next ==
  \/ \E e \in Events, l \in Listeners : On(e, l)
  \/ \E e \in Events, l \in Listeners : Unsubscribe(e, l)
  \/ \E e \in Events, l \in Listeners : Off(e, l)
  \/ \E e \in Events : SubscriberCount(e)
  \/ \E e \in Events : ClearEvent(e)
  \/ ClearAll
  \/ \E e \in Events, p \in Payloads : Emit(e, p)
  \/ ListenerReturn
  \/ \E err \in Errors : ListenerThrow(err)
  \/ EmitReturn

Spec == Init /\ [][Next]_vars

\* The listener that runs in the emit call at depth d comes to its end: it returns
\* or throws.
Finish(d) ==
  /\ Len(stack) = d
  /\ (ListenerReturn \/ \E err \in Errors : ListenerThrow(err))

\* The code of a listener terminates: a listener makes finitely many calls of the
\* bus and then returns or throws, whatever the emit calls nested in it do (strong
\* fairness, as the listener is not at the top of the stack while a nested emit call
\* runs); forEach and emit have no loop of their own besides the calls (lines 60-67).
SpecLive ==
  /\ Init /\ [][Next]_vars
  /\ WF_vars(EmitReturn)
  /\ \A d \in 1..MaxLoad : SF_vars(Finish(d))

\* ===================================================================
\* React bindings (src/src/EventizerContext.tsx)
\* ===================================================================
\* useContext(EventizerContext), line 52: the bus of the nearest provider around
\* the component (the value of line 40), or the default value of the context
UseContext(prov) == IF prov = <<>> THEN Null ELSE prov[Len(prov)]

\* useEventizer() that returns whatever the context holds
UseEventizerNoCheck(ctx) == [called |-> TRUE, throws |-> FALSE, value |-> ctx]

\* useEventizer(), lines 52-56: throws without a context value, else returns its bus
UseEventizerOp(ctx) ==
  IF ctx = Null THEN [called |-> TRUE, throws |-> TRUE, value |-> Null]
  ELSE [called |-> TRUE, throws |-> FALSE, value |-> ctx]

\* the state of the bus, as one value
BusNow ==
  [subs |-> subscribers, heap |-> heap, unsubs |-> unsubs, regs |-> regs,
   nextStamp |-> nextStamp, spent |-> spent]

\* bus.on(e, l) called by an effect (line 76): the bus afterwards
CallOn(b, e, l) ==
  LET r == OnOp(b.subs, b.heap, e, [cb |-> l, t |-> b.nextStamp])
  IN  [b EXCEPT !.subs = r.subs, !.heap = r.heap,
                !.unsubs = @ \cup {[ev |-> e, cb |-> l]},
                !.regs = @ \cup {[ev |-> e, cb |-> l, t |-> b.nextStamp]},
                !.nextStamp = @ + 1]

\* unsubscribe() called by a cleanup function (line 78), where unsubscribe is what
\* on(e, l) returned: the bus afterwards
CallUnsubscribe(b, e, l) ==
  LET r == OffOp(b.subs, b.heap, e, l)
  IN  [b EXCEPT !.subs = r.subs, !.heap = r.heap,
                !.regs = {x \in @ : ~(x.ev = e /\ x.cb = l)},
                !.spent = IF View(r.subs, r.heap) # View(b.subs, b.heap)
                          THEN @ \cup {[ev |-> e, cb |-> l]} ELSE @]

\* the bus is left as b
BusBecomes(b) ==
  /\ Store(b.subs, b.heap, stack)
  /\ unsubs' = b.unsubs
  /\ regs' = b.regs
  /\ nextStamp' = b.nextStamp
  /\ spent' = b.spent
  /\ thrown' = "none"

\* the effect of useSubscribe(e, l, [d]) as it is after it ran with the on() call
\* number t, in a component whose effects made the on() calls mine before
Effect(e, l, d, t, mine) ==
  [active |-> TRUE, ev |-> e, cb |-> l, dep |-> d, t |-> t,
   mine |-> mine \cup {t}, cleaned |-> 0]

\* A component that calls useSubscribe(e, l, [d]) is mounted.  Outside a provider
\* useEventizer throws (line 72) and the component does not mount; else the effect
\* runs (line 76).  React runs effects between the calls of the application.
Mount(c, e, l, d) ==
  /\ stack = <<>>
  /\ ~hooks[c].active
  /\ UNCHANGED <<providers, sideVars>>
  /\ \E u \in {UseEventizerOp(UseContext(providers))} :
       /\ got' = u
       /\ IF u.throws
          THEN UNCHANGED <<subscribers, heap, stack, unsubs, thrown, nextStamp,
                           regs, spent, hooks>>
          ELSE /\ u.value = ThisBus
               /\ Load(nextStamp, 0) <= MaxLoad
               /\ hooks' = [hooks EXCEPT ![c] = Effect(e, l, d, nextStamp, {})]
               /\ \E b \in {CallOn(BusNow, e, l)} : BusBecomes(b)

\* a render whose new effect runs before the cleanup function of the old one
RenderSubscribeFirst(c, e, l, d) ==
  /\ stack = <<>>
  /\ hooks[c].active
  /\ UNCHANGED <<providers, sideVars>>
  /\ got' = UseEventizerOp(UseContext(providers))
  /\ IF e = hooks[c].ev /\ d = hooks[c].dep
     THEN UNCHANGED <<subscribers, heap, stack, unsubs, thrown, nextStamp,
                      regs, spent, hooks>>
     ELSE /\ Load(nextStamp, 0) <= MaxLoad
          /\ hooks' = [hooks EXCEPT
                         ![c] = Effect(e, l, d, nextStamp, hooks[c].mine)]
          /\ \E b \in {CallUnsubscribe(CallOn(BusNow, e, l),
                                       hooks[c].ev, hooks[c].cb)} :
               BusBecomes(b)

\* A mounted component renders again with useSubscribe(e, l, [d]).  When event and
\* dependency are the ones of the effect that ran last, React keeps that effect (the
\* callback of this render is not looked at, line 80); else React calls the cleanup
\* function of that effect (lines 77-79) and then runs the new effect (line 76).
Render(c, e, l, d) ==
  /\ stack = <<>>
  /\ hooks[c].active
  /\ UNCHANGED <<providers, sideVars>>
  /\ got' = UseEventizerOp(UseContext(providers))
  /\ IF e = hooks[c].ev /\ d = hooks[c].dep
     THEN UNCHANGED <<subscribers, heap, stack, unsubs, thrown, nextStamp,
                      regs, spent, hooks>>
     ELSE /\ Load(nextStamp, 0) <= MaxLoad
          /\ hooks' = [hooks EXCEPT
                         ![c] = Effect(e, l, d, nextStamp, hooks[c].mine)]
          /\ \E b \in {CallOn(CallUnsubscribe(BusNow, hooks[c].ev, hooks[c].cb),
                              e, l)} :
               BusBecomes(b)

\* an unmount after which the cleanup function was not called
UnmountNoCleanup(c) ==
  /\ stack = <<>>
  /\ hooks[c].active
  /\ hooks' = [hooks EXCEPT ![c] = [NoHook EXCEPT !.mine = hooks[c].mine]]
  /\ UNCHANGED <<subscribers, heap, stack, unsubs, thrown, nextStamp, regs, spent,
                 providers, got, sideVars>>

\* A mounted component is unmounted: React calls the cleanup function of its effect.
Unmount(c) ==
  /\ stack = <<>>
  /\ hooks[c].active
  /\ UNCHANGED <<providers, got, sideVars>>
  /\ hooks' = [hooks EXCEPT ![c] = [NoHook EXCEPT !.mine = hooks[c].mine,
                                                  !.cleaned = hooks[c].cleaned + 1]]
  /\ \E b \in {CallUnsubscribe(BusNow, hooks[c].ev, hooks[c].cb)} : BusBecomes(b)

\* <EventizerProvider bus={b}> is put around the place of the consumers (no consumer
\* is mounted while the tree above it is replaced)
Provide(b) ==
  /\ \A c \in Consumers : ~hooks[c].active
  /\ Len(providers) < MaxNesting
  /\ providers' = Append(providers, b)
  /\ UNCHANGED <<subscribers, heap, stack, unsubs, thrown, nextStamp, regs, spent,
                 hooks, got, sideVars>>

\* the innermost provider is taken away
Unprovide ==
  /\ \A c \in Consumers : ~hooks[c].active
  /\ providers # <<>>
  /\ providers' = SubSeq(providers, 1, Len(providers) - 1)
  /\ UNCHANGED <<subscribers, heap, stack, unsubs, thrown, nextStamp, regs, spent,
                 hooks, got, sideVars>>

\* a component at the place of the consumers calls useEventizer()
UseEventizer ==
  /\ got' = UseEventizerOp(UseContext(providers))
  /\ UNCHANGED <<subscribers, heap, stack, unsubs, thrown, nextStamp, regs, spent,
                 hooks, providers, sideVars>>

\* The function object an arrow function expression creates when it is evaluated:
\* a new one, whose identity no function object in use has.
NewFn(ems) ==
  CHOOSE i \in 1..(Cardinality(Consumers) + 1) :
    /\ \A c \in Consumers : ems[c].fn.id # i
    /\ \A j \in 1..(i - 1) : \E c \in Consumers : ems[c].fn.id = j

\* useEmitter() whose function emits the first event, whatever event it was given
UseEmitterOpFirstEvent(ctx, e, id) ==
  LET u == UseEventizerOp(ctx)
  IN  [got |-> u,
       fn  |-> IF u.throws THEN NoEmitter.fn
               ELSE [id |-> id, bus |-> u.value, ev |-> EventSeq[1]]]

\* useEmitter(event), lines 93-94, where the context holds ctx: useEventizer() gives
\* the bus or throws, and the arrow function of line 94, the function object id,
\* closes over that bus and the event
UseEmitterOp(ctx, e, id) ==
  LET u == UseEventizerOp(ctx)
  IN  [got |-> u,
       fn  |-> IF u.throws THEN NoEmitter.fn
               ELSE [id |-> id, bus |-> u.value, ev |-> e]]

\* A component renders and calls useEmitter(e); it keeps the function it is given
\* until it renders again.  Outside a provider the call throws.
UseEmitter(c, e) ==
  /\ stack = <<>>
  /\ \E r \in {UseEmitterOp(UseContext(providers), e, NewFn(emitters))} :
       /\ got' = r.got
       /\ emitters' = IF r.got.throws THEN emitters
                      ELSE [emitters EXCEPT
                              ![c] = [called |-> TRUE, ev |-> e, fn |-> r.fn]]
  /\ UNCHANGED <<subscribers, heap, stack, unsubs, thrown, nextStamp, regs, spent,
                 hooks, providers, peer, pass>>

\* The function useEmitter gave the component is called with payload p, by the
\* application or by a listener: bus.emit(event, payload), line 94.
CallEmitter(c, p) ==
  /\ emitters[c].called
  /\ emitters[c].fn.bus = ThisBus
  /\ Emit(emitters[c].fn.ev, p)

\* The application calls the bus between the renders, outside any listener.
AppOn(e, l) == stack = <<>> /\ On(e, l)

AppOff(e, l) == stack = <<>> /\ Off(e, l)

AppClearEvent(e) == stack = <<>> /\ ClearEvent(e)

AppClearAll == stack = <<>> /\ ClearAll

AppEmit(e, p) == stack = <<>> /\ Emit(e, p)

\* The consumers are rendered inside <EventizerProvider bus={ThisBus}>.
InitHooks == InitWith(<<ThisBus>>)

NextHooks ==
  \/ \E c \in Consumers, e \in Events, l \in Listeners, d \in Deps : Mount(c, e, l, d)
  \/ \E c \in Consumers, e \in Events, l \in Listeners, d \in Deps : Render(c, e, l, d)
  \/ \E c \in Consumers : Unmount(c)
  \/ \E e \in Events, l \in Listeners : AppOn(e, l)
  \/ \E e \in Events, l \in Listeners : AppOff(e, l)
  \/ \E e \in Events : AppClearEvent(e)
  \/ AppClearAll
  \/ \E e \in Events, p \in Payloads : AppEmit(e, p)
  \/ ListenerReturn
  \/ \E err \in Errors : ListenerThrow(err)
  \/ EmitReturn

SpecHooks == InitHooks /\ [][NextHooks]_vars

\* The tree around the consumers changes: providers come and go, components call
\* useEventizer, consumers mount and unmount.
NextContext ==
  \/ \E b \in Buses : Provide(b)
  \/ Unprovide
  \/ UseEventizer
  \/ \E c \in Consumers, e \in Events, l \in Listeners, d \in Deps : Mount(c, e, l, d)
  \/ \E c \in Consumers, e \in Events, l \in Listeners, d \in Deps : Render(c, e, l, d)
  \/ \E c \in Consumers : Unmount(c)

SpecContext == Init /\ [][NextContext]_vars

\* Components inside <EventizerProvider bus={ThisBus}> call useEmitter and the
\* functions it gave them, while the application registers and removes listeners,
\* which may call the bus as in Next.
NextEmitter ==
  \/ \E c \in Consumers, e \in Events : UseEmitter(c, e)
  \/ \E c \in Consumers, p \in Payloads : CallEmitter(c, p)
  \/ \E e \in Events, l \in Listeners : AppOn(e, l)
  \/ \E e \in Events, l \in Listeners : AppOff(e, l)
  \/ ListenerReturn
  \/ \E err \in Errors : ListenerThrow(err)
  \/ EmitReturn

SpecEmitter == InitHooks /\ [][NextEmitter]_vars

\* ===================================================================
\* Two Eventizer instances
\* ===================================================================
\* an instance whose methods read the subscribers of the first instance (one
\* object shared by the instances, as a static field is)
ThisShared(b) == BusNow

\* `this` in a method called on the instance b: the fields of that instance
This(b) ==
  IF b = ThisBus THEN BusNow
  ELSE [subs |-> peer.subs, heap |-> peer.heap, unsubs |-> peer.unsubs,
        regs |-> peer.regs, nextStamp |-> nextStamp, spent |-> peer.spent]

\* bus.off(e, l): the instance afterwards
CallOff(s, e, l) ==
  LET r == OffOp(s.subs, s.heap, e, l)
  IN  [s EXCEPT !.subs = r.subs, !.heap = r.heap,
                !.regs = {x \in @ : ~(x.ev = e /\ x.cb = l)}]

\* bus.clearEvent(e): the instance afterwards
CallClearEvent(s, e) ==
  [s EXCEPT !.subs = ClearEventOp(s.subs, e), !.regs = {x \in @ : x.ev # e}]

\* bus.clearAll(): the instance afterwards
CallClearAll(s) == [s EXCEPT !.subs = ClearAllOp(s.subs), !.regs = {}]

\* forEach to its end, with listeners that return (or throw) without a call of a bus
RECURSIVE RunPass(_, _)
RunPass(stk, hp) ==
  IF stk[Len(stk)].phase = "done" THEN stk[Len(stk)]
  ELSE RunPass(Advance(stk, hp), hp)

\* bus.emit(e, p) from the call to the return: the emit call as it is at its return
CallEmit(s, e, p) == RunPass(EmitOp(<<>>, s.subs, s.heap, e, p, s.regs), s.heap)

\* the instance b is left as r; the arrays no instance refers to are collected
Becomes(b, r) ==
  IF b = ThisBus THEN BusBecomes(r) /\ UNCHANGED peer
  ELSE /\ \E c \in {Collect(r.subs, r.heap, <<>>,
                              Uniq(Refs(r.subs, <<>>), {Undefined}))} :
            peer' = [subs |-> c.subs, heap |-> c.heap, unsubs |-> r.unsubs,
                     regs |-> r.regs, spent |-> r.spent]
       /\ nextStamp' = r.nextStamp
       /\ thrown' = "none"
       /\ UNCHANGED <<subscribers, heap, stack, unsubs, regs, spent>>

\* The application calls the instance b, outside any listener.
BusOn(b, e, l) ==
  /\ stack = <<>>
  /\ Load(nextStamp, 0) <= MaxLoad
  /\ pass' = <<>>
  /\ UNCHANGED <<hookVars, emitters>>
  /\ \E r \in {CallOn(This(b), e, l)} : Becomes(b, r)

BusOff(b, e, l) ==
  /\ stack = <<>>
  /\ pass' = <<>>
  /\ UNCHANGED <<hookVars, emitters>>
  /\ \E r \in {CallOff(This(b), e, l)} : Becomes(b, r)

BusClearEvent(b, e) ==
  /\ stack = <<>>
  /\ pass' = <<>>
  /\ UNCHANGED <<hookVars, emitters>>
  /\ \E r \in {CallClearEvent(This(b), e)} : Becomes(b, r)

BusClearAll(b) ==
  /\ stack = <<>>
  /\ pass' = <<>>
  /\ UNCHANGED <<hookVars, emitters>>
  /\ \E r \in {CallClearAll(This(b))} : Becomes(b, r)

\* the listeners of the pass return or throw, and call no bus
BusEmit(b, e, p) ==
  /\ stack = <<>>
  /\ pass' = <<[bus |-> b, frame |-> CallEmit(This(b), e, p)]>>
  /\ UNCHANGED <<hookVars, emitters>>
  /\ Becomes(b, This(b))

NextPair ==
  \/ \E b \in Buses, e \in Events, l \in Listeners : BusOn(b, e, l)
  \/ \E b \in Buses, e \in Events, l \in Listeners : BusOff(b, e, l)
  \/ \E b \in Buses, e \in Events : BusClearEvent(b, e)
  \/ \E b \in Buses : BusClearAll(b)
  \/ \E b \in Buses, e \in Events, p \in Payloads : BusEmit(b, e, p)

SpecPair == Init /\ [][NextPair]_vars

\* ===================================================================
\* Properties
\* ===================================================================
Frames == {stack[i] : i \in 1..Len(stack)}

\* the registrations of a set, earliest first
RECURSIVE ByStamp(_)
ByStamp(R) ==
  IF R = {} THEN <<>>
  ELSE LET m == CHOOSE x \in R : \A y \in R : x.t <= y.t
       IN  <<m>> \o ByStamp(R \ {m})

\* a sequence of registrations, entries or calls as (callback, stamp) pairs
Ids(s) == [i \in DOMAIN s |-> <<s[i].cb, s[i].t>>]

\* number of calls of l with argument p among the calls c
CallsWith(c, l, p) == Cardinality({i \in DOMAIN c : c[i].cb = l /\ c[i].arg = p})

RegsOf(R, l) == {x \in R : x.cb = l}

\* ------------------------------------------------------------------ C1
\* C1 as stated: an emit(E, P) call invokes a listener L that was registered for E
\* (and not removed) when emit was called exactly once, with argument P.
C1_ExactlyOnce ==
  \A f \in Frames : f.phase = "done" =>
    \A l \in Listeners : RegsOf(f.regsAt, l) # {} => CallsWith(f.seen, l, f.arg) = 1

\* C1 amended: an emit(E, P) call invokes L once for every registration of L for E
\* that was in place when emit was called (once when L is registered once), every
\* time with argument P, and makes no other call.
C1_Delivery ==
  \A f \in Frames : f.phase = "done" =>
    /\ \A l \in Listeners :
         CallsWith(f.seen, l, f.arg) = Cardinality(RegsOf(f.regsAt, l))
    /\ Len(f.seen) = Cardinality(f.regsAt)

\* an emit call is over that found the same listener registered twice, and one that
\* found a listener registered once
C1_Witness ==
  \E f \in Frames : f.phase = "done" /\ \E l, m \in Listeners :
    Cardinality(RegsOf(f.regsAt, l)) = 2 /\ Cardinality(RegsOf(f.regsAt, m)) = 1

\* ------------------------------------------------------------------ C2
\* C2: after any on/off calls the array of an event holds its registrations in the
\* order in which they were made, and an emit call invokes the registrations that
\* were in place when it was called in that order.
C2_Ordering ==
  /\ \A e \in Events :
       Ids(Arr(subscribers, heap, e)) = Ids(ByStamp({x \in regs : x.ev = e}))
  /\ \A f \in Frames :
       /\ f.k <= Cardinality(f.regsAt)
       /\ Ids(f.seen) = Ids(SubSeq(ByStamp(f.regsAt), 1, f.k))
       /\ f.phase = "done" => f.k = Cardinality(f.regsAt)

\* three registrations were made, the second was removed, and an emit call invoked
\* the first and then the third, two different listeners
C2_Witness ==
  \E f \in Frames :
    /\ f.phase = "done" /\ Len(f.seen) = 2
    /\ f.seen[1].t = 1 /\ f.seen[2].t = 3 /\ f.seen[1].cb # f.seen[2].cb

\* ------------------------------------------------------------------ C3
\* C3: when a listener throws during emit(E, P), every listener registered after it
\* for E is still invoked with P by the same emit call.
C3_FailureIsolation ==
  \A f \in Frames : f.phase = "done" =>
    \A i \in DOMAIN f.errs : \A j \in (f.errs[i].k + 1)..Len(f.snap) :
      /\ j <= Len(f.seen)
      /\ f.seen[j] = [cb |-> f.snap[j].cb, t |-> f.snap[j].t, arg |-> f.arg]

\* an emit call over three listeners is over, the first and the second threw
C3_Witness ==
  \E f \in Frames :
    /\ f.phase = "done" /\ Len(f.snap) = 3 /\ Len(f.errs) = 2
    /\ f.errs[1].k = 1 /\ f.errs[2].k = 2

\* ------------------------------------------------------------------ C4
\* C4: no exception of a listener reaches the caller of emit, also when the listener
\* runs in an emit call nested in another: no call ends with an exception.
C4_NoErrorReachesCaller == thrown = "none"

\* a listener of a nested emit call threw, and the nested call is returning normally
\* to the listener of the outer call that called it
C4_Witness ==
  /\ Len(stack) = 2
  /\ stack[2].phase = "done" /\ stack[2].errs # <<>>
  /\ stack[1].phase = "body"

\* ------------------------------------------------------------------ C5
\* C5: subscriberCount(E) is the number of registrations for E made and not yet
\* removed, 0 when there is none.
C5_CountAccuracy ==
  \A e \in Events :
    SubscriberCountOp(subscribers, heap, e) = Cardinality({x \in regs : x.ev = e})

\* three registrations were made, one is left, and the two events count 1 and 0
C5_Witness ==
  /\ nextStamp = 4 /\ Cardinality(regs) = 1
  /\ \E e \in Events : SubscriberCountOp(subscribers, heap, e) = 1
  /\ \E e \in Events : SubscriberCountOp(subscribers, heap, e) = 0

\* ------------------------------------------------------------------ C6
\* C6: an emit(E, P) call invokes only registrations that were in place when it was
\* called: a listener removed by off(E, L) or by the function on(E, L) returned, and
\* not registered for E again since, is not invoked.  (regs loses every registration
\* of L for E at off and at the returned function, and gains one at on.)
C6_UnsubscriptionStopsDelivery ==
  \A f \in Frames : \A i \in DOMAIN f.seen :
    \E x \in f.regsAt : x.cb = f.seen[i].cb /\ x.t = f.seen[i].t

\* two registrations were made, the function on() returned for the first removed it,
\* and an emit call of that event then invoked the second and not the first
C6_Witness ==
  /\ nextStamp = 3
  /\ \E f \in Frames : \E l \in Listeners :
       /\ [ev |-> f.ev, cb |-> l] \in spent
       /\ f.seen # <<>> /\ f.seen[1].t = 2
       /\ RegsOf(f.regsAt, l) = {}
       /\ CallsWith(f.seen, l, f.arg) = 0

\* ------------------------------------------------------------------ C7
\* C7 as stated: a call of the function returned by on(E, L) lowers the number of
\* registrations of L for E by exactly one, also when L is registered more than once.
C7_RemovesExactlyOne ==
  [][\A e \in Events, l \in Listeners :
       (Unsubscribe(e, l) /\ CountCb(Arr(subscribers, heap, e), l) >= 1) =>
         CountCb(Arr(subscribers', heap', e), l)
           = CountCb(Arr(subscribers, heap, e), l) - 1]_vars

\* ------------------------------------------------------------------ C8
\* C8 as stated: once a call of the function returned by on(E, L) has removed a
\* registration, every later call of it leaves the mapping unchanged, whatever
\* operations were called in between.
C8_UnsubscribeIdempotent ==
  [][\A e \in Events, l \in Listeners :
       ([ev |-> e, cb |-> l] \in spent /\ Unsubscribe(e, l)) =>
         View(subscribers', heap') = View(subscribers, heap)]_vars

\* ------------------------------------------------------------------ C9
\* C9: off(E, L) removes every entry of E's sequence that is L, keeps the other
\* entries of E in their order, leaves the other events alone, and deletes E's key
\* when nothing is left.
C9_OffRemovesAll ==
  [][\A e \in Events, l \in Listeners : Off(e, l) =>
       LET a == Arr(subscribers, heap, e)
           b == Arr(subscribers', heap', e)
       IN  /\ CountCb(b, l) = 0
           /\ b = SelectSeq(a, LAMBDA x : x.cb # l)
           /\ (b = <<>>) = (subscribers'[e] = Undefined)
           /\ \A d \in Events \ {e} :
                /\ Arr(subscribers', heap', d) = Arr(subscribers, heap, d)
                /\ (subscribers'[d] = Undefined) = (subscribers[d] = Undefined)]_vars

\* three registrations were made for one event, the first and the third (of one
\* listener, not removed by a returned function) are gone and the second is left
C9_Witness ==
  /\ nextStamp = 4 /\ spent = {}
  /\ \E e \in Events : \E l, m \in Listeners :
       /\ l # m
       /\ unsubs = {[ev |-> e, cb |-> l], [ev |-> e, cb |-> m]}
       /\ Arr(subscribers, heap, e) = <<[cb |-> m, t |-> 2]>>

\* ----------------------------------------------------------------- C10
\* C10: on(E, L) appends exactly one entry to the end of E's sequence, also when L
\* is already registered for E, so that subscriberCount(E) grows by one and a later
\* emit(E, P) invokes L once for each entry; the other events are unchanged.
C10_OnAppends ==
  /\ [][\A e \in Events, l \in Listeners : On(e, l) =>
          /\ Arr(subscribers', heap', e)
               = Append(Arr(subscribers, heap, e), [cb |-> l, t |-> nextStamp])
          /\ SubscriberCountOp(subscribers', heap', e)
               = SubscriberCountOp(subscribers, heap, e) + 1
          /\ \A d \in Events \ {e} :
               Arr(subscribers', heap', d) = Arr(subscribers, heap, d)]_vars
  /\ [](\A f \in Frames : f.phase = "done" =>
          \A l \in Listeners : CallsWith(f.seen, l, f.arg) = CountCb(f.snap, l))

\* one listener is registered three times for an event, which counts 3, and an emit
\* call of the event invoked it three times
C10_Witness ==
  \E e \in Events, l \in Listeners :
    /\ CountCb(Arr(subscribers, heap, e), l) = 3
    /\ SubscriberCountOp(subscribers, heap, e) = 3
    /\ \E f \in Frames : f.phase = "done" /\ f.ev = e /\ CallsWith(f.seen, l, f.arg) = 3

\* ----------------------------------------------------------------- C11
\* C11: after every operation, also one called by a listener while an emit call is
\* in progress, every key of the subscribers object refers to an array with at least
\* one entry: an event without listeners has no key.
C11_KeysNonEmpty ==
  \A e \in Events : subscribers[e] # Undefined => Len(heap[subscribers[e]]) >= 1

\* a listener that runs in an emit call has removed the only registration of the
\* event being emitted, whose key is gone, while the other event keeps its key
C11_Witness ==
  /\ stack # <<>>
  /\ \E e \in Events :
       /\ stack[Len(stack)].ev = e /\ stack[Len(stack)].phase = "body"
       /\ Len(stack[Len(stack)].snap) = 1
       /\ Keys(subscribers) = Events \ {e}

\* ----------------------------------------------------------------- C12
\* C12: an emit(E1, P) call invokes no listener that had no registration for E1
\* when it was called (one registered only for another event E2), invokes no
\* registration that was made for another event, and passes every listener it
\* invokes its own payload P, also when it is nested in an emit call of another
\* event with another payload.
C12_EventIsolation ==
  \A f \in Frames :
    /\ \A i \in DOMAIN f.seen : f.seen[i].arg = f.arg
    /\ \A l \in Listeners :
         (\A x \in f.regsAt : x.cb # l) => \A i \in DOMAIN f.seen : f.seen[i].cb # l
    /\ \A x \in regs : x.ev # f.ev => \A i \in DOMAIN f.seen : f.seen[i].t # x.t

\* one listener is registered for each event; the listener of the first, invoked
\* with one payload, emitted the second event with the other payload, and that
\* nested call invoked the listener of the second event only
C12_Witness ==
  /\ Len(stack) = 2
  /\ stack[1].ev # stack[2].ev /\ stack[1].arg # stack[2].arg
  /\ stack[2].phase = "done"
  /\ Len(stack[1].seen) = 1 /\ Len(stack[2].seen) = 1
  /\ stack[1].seen[1].cb # stack[2].seen[1].cb
  /\ \A e \in Events : Len(Arr(subscribers, heap, e)) = 1

\* ----------------------------------------------------------------- C13
\* C13: clearEvent(E) leaves E without key and with count 0, leaves the array and
\* the count of every other event as they were, and changes nothing when E had no
\* listeners; an emit(E, P) called while E counts 0 invokes no listener.
C13_ClearEvent ==
  /\ [][\A e \in Events : ClearEvent(e) =>
          /\ subscribers'[e] = Undefined
          /\ SubscriberCountOp(subscribers', heap', e) = 0
          /\ \A d \in Events \ {e} :
               /\ Arr(subscribers', heap', d) = Arr(subscribers, heap, d)
               /\ SubscriberCountOp(subscribers', heap', d)
                    = SubscriberCountOp(subscribers, heap, d)
          /\ SubscriberCountOp(subscribers, heap, e) = 0 =>
               /\ View(subscribers', heap') = View(subscribers, heap)
               /\ Keys(subscribers') = Keys(subscribers)]_vars
  /\ [][\A e \in Events, p \in Payloads :
          (Emit(e, p) /\ SubscriberCountOp(subscribers, heap, e) = 0) =>
            /\ Len(stack') = Len(stack) + 1
            /\ stack'[Len(stack')].phase = "done"
            /\ stack'[Len(stack')].seen = <<>>]_vars

\* two listeners were registered for one event and one for the other; the first
\* event has lost both without a call of a returned function, the other event
\* still has its listener, and an emit call of the first event invoked nothing
C13_Witness ==
  /\ nextStamp = 4 /\ spent = {}
  /\ \E e \in Events :
       /\ {u \in unsubs : u.ev = e} = {[ev |-> e, cb |-> l] : l \in Listeners}
       /\ subscribers[e] = Undefined
       /\ \A d \in Events \ {e} : SubscriberCountOp(subscribers, heap, d) = 1
       /\ Len(stack) = 1 /\ stack[1].ev = e
       /\ stack[1].phase = "done" /\ stack[1].seen = <<>>

\* ----------------------------------------------------------------- C14
\* C14: clearAll() leaves the object without keys, so that every event counts 0;
\* the counts stay 0 until an on() call, and an emit called while there is no key
\* invokes no listener.
C14_ClearAll ==
  /\ [][ClearAll =>
          /\ Keys(subscribers') = {}
          /\ \A e \in Events : SubscriberCountOp(subscribers', heap', e) = 0]_vars
  /\ [][((\A e \in Events : SubscriberCountOp(subscribers, heap, e) = 0)
           /\ (\E e \in Events : SubscriberCountOp(subscribers', heap', e) # 0))
          => \E e \in Events, l \in Listeners : On(e, l)]_vars
  /\ [][\A e \in Events, p \in Payloads : (Emit(e, p) /\ Keys(subscribers) = {}) =>
          /\ stack'[Len(stack')].ev = e
          /\ stack'[Len(stack')].phase = "done"
          /\ stack'[Len(stack')].k = 0]_vars

\* listeners were registered for both events, three registrations in all; nothing
\* is left of them without a call of a returned function, and an emit call made
\* then invoked no listener
C14_Witness ==
  /\ nextStamp = 4 /\ spent = {}
  /\ {u.ev : u \in unsubs} = Events
  /\ Keys(subscribers) = {}
  /\ \A e \in Events : SubscriberCountOp(subscribers, heap, e) = 0
  /\ Len(stack) = 1 /\ stack[1].phase = "done" /\ stack[1].k = 0

\* ----------------------------------------------------------------- C15
\* C15: the steps of emit itself (the call, a listener returning or throwing, the
\* return) leave every event's array and the set of keys as they were, so that the
\* mapping after an emit call in which no listener called an operation is the one
\* before it, whether or not listeners threw; subscriberCount changes nothing.
C15_ReadOnly ==
  /\ [][(\/ \E e \in Events, p \in Payloads : Emit(e, p)
         \/ ListenerReturn
         \/ \E err \in Errors : ListenerThrow(err)
         \/ EmitReturn) =>
          /\ View(subscribers', heap') = View(subscribers, heap)
          /\ Keys(subscribers') = Keys(subscribers)
          /\ regs' = regs]_vars
  /\ [][(\E e \in Events : SubscriberCount(e)) =>
          UNCHANGED <<subscribers, heap, stack, unsubs, regs>>]_vars

\* two listeners were registered for an event; an emit call of it is over in which
\* the first threw and the second did not, and both are still registered
C15_Witness ==
  /\ nextStamp = 3
  /\ Len(stack) = 1 /\ stack[1].phase = "done"
  /\ Len(stack[1].seen) = 2
  /\ Len(stack[1].errs) = 1 /\ stack[1].errs[1].k = 1
  /\ Arr(subscribers, heap, stack[1].ev) = stack[1].snap
  /\ Cardinality(regs) = 2

\* ----------------------------------------------------------------- C16
\* C16: a listener call that throws during emit(E, P) writes one report that names
\* E and carries the exception thrown; a listener call that returns writes none,
\* and no other step writes a report for an emit call: an emit call has at most one
\* report for each call it made, all of them naming its event.
C16_Reports ==
  /\ [][\A err \in Errors : ListenerThrow(err) =>
          stack'[Len(stack)].errs
            = Append(stack[Len(stack)].errs,
                     [ev |-> stack[Len(stack)].ev, err |-> err,
                      k |-> stack[Len(stack)].k])]_vars
  /\ [][\A i \in 1..Len(stack) :
          (i <= Len(stack') /\ stack'[i].errs # stack[i].errs) =>
            i = Len(stack) /\ \E err \in Errors : ListenerThrow(err)]_vars
  /\ [](\A f \in Frames :
          /\ \A i \in DOMAIN f.errs :
               /\ f.errs[i].ev = f.ev /\ f.errs[i].err \in Errors
               /\ f.errs[i].k \in 1..Len(f.seen)
          /\ \A i, j \in DOMAIN f.errs : i < j => f.errs[i].k < f.errs[j].k)

\* an emit call invoked three listeners: the first and the third threw and were
\* reported, the second returned and was not
C16_Witness ==
  \E f \in Frames :
    /\ f.phase = "done" /\ Len(f.seen) = 3 /\ Len(f.errs) = 2
    /\ f.errs[1].k = 1 /\ f.errs[2].k = 3
    /\ f.errs[1].ev = f.ev /\ f.errs[2].ev = f.ev

\* ----------------------------------------------------------------- C17
\* C17: an emit call returns only when forEach has called every entry the array had
\* when emit was called; an emit call that has a nested emit call above it is inside
\* a listener and makes no call and does not return until the nested call has
\* returned.
C17_SynchronousFanOut ==
  /\ [](\A i \in 1..Len(stack) :
          /\ i < Len(stack) => stack[i].phase = "body"
          /\ stack[i].phase = "done" =>
               /\ stack[i].k = stack[i].len
               /\ Len(stack[i].seen) = Len(stack[i].snap))
  /\ [][EmitReturn =>
          /\ stack[Len(stack)].phase = "done"
          /\ Len(stack[Len(stack)].seen) = Len(stack[Len(stack)].snap)
          /\ Len(stack') = Len(stack) - 1]_vars
  /\ [][\A i \in 1..(Len(stack) - 1) :
          /\ i <= Len(stack')
          /\ stack'[i].k = stack[i].k
          /\ stack'[i].seen = stack[i].seen
          /\ stack'[i].phase = stack[i].phase]_vars

\* the first of two listeners of an emit call called emit for the same event; the
\* nested call has invoked both listeners and is returning, and the outer call has
\* not yet invoked its second listener
C17_Witness ==
  /\ Len(stack) = 2
  /\ stack[2].phase = "done" /\ Len(stack[2].seen) = 2
  /\ stack[1].phase = "body" /\ stack[1].k = 1 /\ stack[1].len = 2
  /\ stack[1].ev = stack[2].ev

\* ----------------------------------------------------------------- C18
\* the registrations that the on() calls of a consumer's effects made (since it was
\* last mounted) and that are still in place
Held(c) == {x \in regs : x.t \in hooks[c].mine}

\* C18: whatever the consumers do (mount, render again with the same or another
\* event, callback or dependency, unmount) and whatever the application calls on the
\* bus, a consumer holds at most one registration, which is the one of its last
\* effect, and holds none once it is unmounted: the arrays of the bus hold exactly
\* the registrations in place, so the count of its event no longer includes it.
C18_ScopedSubscription ==
  /\ \A c \in Consumers :
       /\ Cardinality(Held(c)) <= 1
       /\ ~hooks[c].active => Held(c) = {}
       /\ hooks[c].active =>
            Held(c) \subseteq {[ev |-> hooks[c].ev, cb |-> hooks[c].cb,
                                t |-> hooks[c].t]}
  /\ \A e \in Events :
       /\ Ids(Arr(subscribers, heap, e)) = Ids(ByStamp({x \in regs : x.ev = e}))
       /\ SubscriberCountOp(subscribers, heap, e)
            = Cardinality({x \in regs : x.ev = e})

\* a consumer was mounted, rendered again with a changed event or dependency and
\* was unmounted, and nothing is registered for the events it used, while the other
\* consumer is mounted and holds its registration
C18_Witness ==
  \E c, o \in Consumers :
    /\ c # o
    /\ ~hooks[c].active /\ Cardinality(hooks[c].mine) = 2 /\ hooks[c].cleaned = 1
    /\ hooks[o].active /\ Cardinality(Held(o)) = 1
    /\ Cardinality(regs) = 1

\* ----------------------------------------------------------------- C19
\* C19: mounting a consumer inside the provider calls on(event, callback), which
\* appends its registration; unmounting it calls the function that on() call
\* returned, once, which leaves the event without that callback; rendering it with
\* another event or dependency removes the old registration and then makes the new
\* one, so that the consumer holds the new registration and nothing for the old
\* event; rendering it with the same event and dependency changes nothing.
C19_Lifecycle ==
  /\ [][\A c \in Consumers, e \in Events, l \in Listeners, d \in Deps :
          (Mount(c, e, l, d) /\ hooks'[c].active) =>
            /\ Arr(subscribers', heap', e)
                 = Append(Arr(subscribers, heap, e), [cb |-> l, t |-> nextStamp])
            /\ Held(c)' = {[ev |-> e, cb |-> l, t |-> nextStamp]}
            /\ hooks'[c].cleaned = 0]_vars
  /\ [][\A c \in Consumers : Unmount(c) =>
          /\ hooks[c].cleaned = 0 /\ hooks'[c].cleaned = 1
          /\ View(subscribers', heap')
               = [View(subscribers, heap) EXCEPT
                    ![hooks[c].ev] = SelectSeq(@, LAMBDA x : x.cb # hooks[c].cb)]
          /\ Held(c)' = {}]_vars
  /\ [][\A c \in Consumers, e \in Events, l \in Listeners, d \in Deps :
          Render(c, e, l, d) =>
            IF e = hooks[c].ev /\ d = hooks[c].dep
            THEN /\ View(subscribers', heap') = View(subscribers, heap)
                 /\ hooks' = hooks
            ELSE /\ Held(c)' = {[ev |-> e, cb |-> l, t |-> nextStamp]}
                 /\ Arr(subscribers', heap', e) # <<>>
                 /\ Arr(subscribers', heap', e)[Len(Arr(subscribers', heap', e))]
                      = [cb |-> l, t |-> nextStamp]
                 /\ \A x \in regs : x.t \in hooks[c].mine => x \notin regs'
                 /\ hooks'[c].cleaned = 0]_vars
  /\ [](\A c \in Consumers :
          /\ hooks[c].active => hooks[c].cleaned = 0
          /\ (~hooks[c].active /\ hooks[c].mine # {}) => hooks[c].cleaned = 1)

\* a consumer was mounted and then rendered with another event or dependency: its
\* second registration is the only one in place; the other consumer was mounted and
\* unmounted, which called the function its on() call returned once
C19_Witness ==
  \E c, o \in Consumers :
    /\ c # o
    /\ hooks[c].active /\ Cardinality(hooks[c].mine) = 2
    /\ regs = {[ev |-> hooks[c].ev, cb |-> hooks[c].cb, t |-> hooks[c].t]}
    /\ ~hooks[o].active /\ hooks[o].cleaned = 1 /\ Cardinality(hooks[o].mine) = 1

\* ----------------------------------------------------------------- C20
\* C20: useEventizer() called where no provider is around throws and returns
\* nothing; called inside providers it returns the bus given to the innermost of
\* them.  A useSubscribe() outside any provider throws as well and registers
\* nothing.
C20_ContextRetrieval ==
  /\ [][UseEventizer =>
          IF providers = <<>>
          THEN got'.throws /\ got'.value = Null
          ELSE ~got'.throws /\ got'.value = providers[Len(providers)]]_vars
  /\ [][\A c \in Consumers, e \in Events, l \in Listeners, d \in Deps :
          (Mount(c, e, l, d) /\ providers = <<>>) =>
            /\ got'.throws
            /\ hooks' = hooks
            /\ regs' = regs /\ View(subscribers', heap') = View(subscribers, heap)]_vars
  /\ [](got.called =>
          /\ got.throws <=> got.value = Null
          /\ ~got.throws => got.value \in Buses)

\* a consumer was mounted inside a provider of the bus, so that useEventizer gave
\* useSubscribe that bus, and was unmounted; the providers are gone, and the last
\* call of useEventizer threw
C20_Witness ==
  /\ providers = <<>>
  /\ got.called /\ got.throws
  /\ \E c \in Consumers : hooks[c].mine # {} /\ ~hooks[c].active

\* ----------------------------------------------------------------- C21
\* C21: a call with payload P of the function that useEmitter(E) gave a component is
\* the step emit(E, P) of the provided bus, from the call of the first listener to
\* the return: the emit call it starts has event E and payload P and runs over the
\* array E has at the call, every listener it calls is the next entry of that array
\* and is passed P; the call leaves what useEmitter gave the components as it was,
\* and useEmitter itself leaves the bus alone.
C21_EmitterForwards ==
  /\ [][\A c \in Consumers, p \in Payloads : CallEmitter(c, p) =>
          /\ Emit(emitters[c].ev, p)
          /\ stack'[Len(stack')].ev = emitters[c].ev
          /\ stack'[Len(stack')].arg = p
          /\ stack'[Len(stack')].snap = Arr(subscribers, heap, emitters[c].ev)
          /\ emitters' = emitters]_vars
  /\ [][\A c \in Consumers, e \in Events : UseEmitter(c, e) =>
          /\ UNCHANGED <<subscribers, heap, stack, regs>>
          /\ emitters'[c].ev = e /\ emitters'[c].fn.bus = ThisBus]_vars
  /\ [](\A f \in Frames :
          /\ \A i \in DOMAIN f.seen :
               f.seen[i] = [cb |-> f.snap[i].cb, t |-> f.snap[i].t, arg |-> f.arg]
          /\ f.phase = "done" => Len(f.seen) = Len(f.snap))

\* the two components were given functions for the two events; the function for
\* the event that has two listeners was called, and that emit call has invoked both
\* listeners, while the listener of the other event was not invoked
C21_Witness ==
  /\ \A c \in Consumers : emitters[c].called
  /\ {emitters[c].ev : c \in Consumers} = Events
  /\ Len(stack) = 1 /\ stack[1].phase = "done" /\ Len(stack[1].seen) = 2
  /\ \A e \in Events \ {stack[1].ev} : Len(Arr(subscribers, heap, e)) = 1

\* ----------------------------------------------------------------- C22
\* C22 as stated: a component that renders again and calls useEmitter(E) with the
\* event of its last render, inside the same provider, is given the function object
\* it was given by the last render.
C22_StableIdentity ==
  [][\A c \in Consumers, e \in Events :
       (UseEmitter(c, e) /\ emitters[c].called /\ emitters[c].ev = e
          /\ emitters[c].fn.bus = UseContext(providers)) =>
         emitters'[c].fn.id = emitters[c].fn.id]_vars

\* ----------------------------------------------------------------- C23
\* the mapping, the keys and the registrations of an instance
ViewOf(b) ==
  IF b = ThisBus THEN View(subscribers, heap) ELSE View(peer.subs, peer.heap)

KeysOf(b) == IF b = ThisBus THEN Keys(subscribers) ELSE Keys(peer.subs)

RegsIn(b) == IF b = ThisBus THEN regs ELSE peer.regs

\* C23: an operation called on one instance has its effect on the mapping of that
\* instance (on appends, off filters, clearEvent and clearAll delete, emit changes
\* nothing) and leaves the mapping and the keys of the other instance as they were;
\* an emit call on an instance invokes the entries that instance has for the event,
\* and no registration that was made on the other instance, also when the other
\* instance has listeners for the same event name.
C23_Instances ==
  /\ [][\A b \in Buses, e \in Events, l \in Listeners : BusOn(b, e, l) =>
          ViewOf(b)' = [ViewOf(b) EXCEPT
                          ![e] = Append(@, [cb |-> l, t |-> nextStamp])]]_vars
  /\ [][\A b \in Buses, e \in Events, l \in Listeners : BusOff(b, e, l) =>
          ViewOf(b)' = [ViewOf(b) EXCEPT ![e] = SelectSeq(@, LAMBDA x : x.cb # l)]]_vars
  /\ [][\A b \in Buses, e \in Events : BusClearEvent(b, e) =>
          ViewOf(b)' = [ViewOf(b) EXCEPT ![e] = <<>>]]_vars
  /\ [][\A b \in Buses : BusClearAll(b) => KeysOf(b)' = {}]_vars
  /\ [][\A b \in Buses, e \in Events, p \in Payloads : BusEmit(b, e, p) =>
          /\ ViewOf(b)' = ViewOf(b)
          /\ pass'[1].frame.seen
               = [i \in DOMAIN ViewOf(b)[e] |->
                    [cb |-> ViewOf(b)[e][i].cb, t |-> ViewOf(b)[e][i].t, arg |-> p]]
          /\ \A o \in Buses \ {b} : \A x \in RegsIn(o) :
               \A i \in DOMAIN pass'[1].frame.seen : pass'[1].frame.seen[i].t # x.t]_vars
  /\ [][\A b \in Buses :
          (\/ \E e \in Events, l \in Listeners : BusOn(b, e, l) \/ BusOff(b, e, l)
           \/ \E e \in Events : BusClearEvent(b, e)
           \/ BusClearAll(b)
           \/ \E e \in Events, p \in Payloads : BusEmit(b, e, p)) =>
            \A o \in Buses \ {b} :
              ViewOf(o)' = ViewOf(o) /\ KeysOf(o)' = KeysOf(o)]_vars

\* each instance has a listener for the same event, two different callbacks; an
\* emit call of that event on one instance has invoked the listener of that
\* instance only, and a third registration was made and removed along the way
C23_Witness ==
  /\ nextStamp = 4
  /\ \E e \in Events :
       /\ Len(ViewOf(ThisBus)[e]) = 1 /\ Len(ViewOf(PeerBus)[e]) = 1
       /\ ViewOf(ThisBus)[e][1].cb # ViewOf(PeerBus)[e][1].cb
       /\ pass # <<>> /\ pass[1].bus = PeerBus /\ pass[1].frame.ev = e
       /\ Len(pass[1].frame.seen) = 1
       /\ pass[1].frame.seen[1].cb = ViewOf(PeerBus)[e][1].cb

\* ----------------------------------------------------------------- C24
\* C24: off(E, L) called when E's array has no entry L, or when E has no key, ends
\* without an exception and leaves every event's sequence, the set of keys and the
\* registrations as they were, and the emit calls in progress go on over the same
\* entries.
C24_OffNoOp ==
  [][\A e \in Events, l \in Listeners :
       (Off(e, l) /\ CountCb(Arr(subscribers, heap, e), l) = 0) =>
         /\ View(subscribers', heap') = View(subscribers, heap)
         /\ Keys(subscribers') = Keys(subscribers)
         /\ regs' = regs
         /\ thrown' = "none"
         /\ Len(stack') = Len(stack)
         /\ \A i \in 1..Len(stack) :
              /\ stack'[i].seen = stack[i].seen /\ stack'[i].k = stack[i].k
              /\ (stack[i].arr # Undefined) =>
                   heap'[stack'[i].arr] = heap[stack[i].arr]]_vars

\* an emit call of an event is in progress whose one listener was the only on() call
\* made; the listener called off for that event with a callback that is not
\* registered, which left the event a new array with the same entry
C24_Witness ==
  /\ nextStamp = 2 /\ Cardinality(regs) = 1
  /\ \E f \in Frames :
       /\ f.phase = "body" /\ f.arr # Undefined
       /\ subscribers[f.ev] # Undefined /\ subscribers[f.ev] # f.arr
       /\ heap[subscribers[f.ev]] = heap[f.arr]
       /\ Len(heap[f.arr]) = 1

Removal ==
  \/ \E e \in Events, l \in Listeners : Off(e, l) \/ Unsubscribe(e, l)
  \/ \E e \in Events : ClearEvent(e)
  \/ ClearAll

\* C26: a removal called by a listener leaves the arrays that the emit calls in
\* progress run over, and the calls they have made, as they were; so an emit call
\* invokes the entries its event's array had when it was called, one after the other
\* in their order, each as often as it is in the array, and has invoked them all
\* when it is over, whatever was removed meanwhile; an emit call made after the
\* removal runs over the array as it is then, which holds the registrations left.
C26_RemovalDuringPass ==
  /\ [][(Removal /\ stack # <<>>) =>
          /\ Len(stack') = Len(stack)
          /\ \A i \in 1..Len(stack) :
               /\ stack'[i].k = stack[i].k /\ stack'[i].seen = stack[i].seen
               /\ stack'[i].len = stack[i].len
               /\ (stack[i].arr # Undefined) =>
                    /\ stack'[i].arr # Undefined
                    /\ heap'[stack'[i].arr] = heap[stack[i].arr]]_vars
  /\ [](\A f \in Frames :
          /\ Len(f.seen) = f.k /\ f.k <= Len(f.snap)
          /\ Ids(f.seen) = Ids(SubSeq(f.snap, 1, f.k))
          /\ \A l \in Listeners :
               f.phase = "done" =>
                 Cardinality({i \in DOMAIN f.seen : f.seen[i].cb = l}) = CountCb(f.snap, l))
  /\ [][\A e \in Events, p \in Payloads : Emit(e, p) =>
          /\ stack'[Len(stack')].snap = Arr(subscribers, heap, e)
          /\ Ids(stack'[Len(stack')].snap) = Ids(ByStamp({x \in regs : x.ev = e}))]_vars

\* an emit call over two listeners is over and has invoked both; the first removed
\* itself by the function its on() call returned, and the event is left with the
\* second only
C26_Witness ==
  /\ Len(stack) = 1 /\ nextStamp = 3
  /\ \E f \in Frames :
       /\ f.phase = "done" /\ Len(f.snap) = 2 /\ Len(f.seen) = 2
       /\ f.seen[1].cb # f.seen[2].cb
       /\ [ev |-> f.ev, cb |-> f.seen[1].cb] \in spent
       /\ Arr(subscribers, heap, f.ev) = <<f.snap[2]>>

\* ----------------------------------------------------------------- C27
\* C27: an on(E, L) called by a listener makes no call of a listener and adds one to
\* subscriberCount(E) at once; no emit call in progress invokes a registration made
\* after it was called, as it makes no more calls than its array had entries then;
\* an emit(E, P) called after the on call, nested or not, runs over an array that
\* holds the new registration, and invokes every entry of it.
C27_AdditionDuringPass ==
  /\ [][\A e \in Events, l \in Listeners : (On(e, l) /\ stack # <<>>) =>
          /\ SubscriberCountOp(subscribers', heap', e)
               = SubscriberCountOp(subscribers, heap, e) + 1
          /\ [cb |-> l, t |-> nextStamp] \in
               {Arr(subscribers', heap', e)[i] : i \in DOMAIN Arr(subscribers', heap', e)}
          /\ Len(stack') = Len(stack)
          /\ \A i \in 1..Len(stack) :
               stack'[i].k = stack[i].k /\ stack'[i].seen = stack[i].seen]_vars
  /\ [](\A f \in Frames :
          /\ f.len = Len(f.snap) /\ Len(f.seen) <= f.len
          /\ \A x \in regs : x \notin f.regsAt =>
               \A i \in DOMAIN f.seen : f.seen[i].t # x.t
          /\ f.phase = "done" => Len(f.seen) = f.len)
  /\ [][\A e \in Events, p \in Payloads : Emit(e, p) =>
          /\ stack'[Len(stack')].len = SubscriberCountOp(subscribers, heap, e)
          /\ stack'[Len(stack')].regsAt = {x \in regs : x.ev = e}]_vars

\* the one listener of an event, invoked by an emit call, registered a second
\* listener for the event, which counts 2, and called emit for the event: the
\* nested call has invoked both, and the outer call makes one call only
C27_Witness ==
  /\ Len(stack) = 2 /\ nextStamp = 3
  /\ stack[1].ev = stack[2].ev
  /\ stack[1].len = 1 /\ stack[1].k = 1 /\ stack[1].phase = "body"
  /\ stack[2].phase = "done" /\ Len(stack[2].seen) = 2 /\ stack[2].seen[2].t = 2
  /\ SubscriberCountOp(subscribers, heap, stack[1].ev) = 2

\* ----------------------------------------------------------------- C28
\* C28 as stated: when a consumer is unmounted, every other consumer that is mounted
\* keeps the registration it holds, also when it subscribed to the same event with
\* the same callback, so that later emit calls of the event invoke its callback.
C28_Independence ==
  [][\A c \in Consumers : Unmount(c) =>
       \A o \in Consumers \ {c} : hooks[o].active => Held(o)' = Held(o)]_vars

====
